---- MODULE Spec2Model ----
(***************************************************************************)
(* The product catalogue API of app-v2.py: a Flask application whose       *)
(* handlers read and write a PostgreSQL table "products" and keep the      *)
(* JSON text of the whole list in Redis under the key 'products' for 120   *)
(* seconds (cache-aside).  Every request runs in its own thread; a handler *)
(* is modelled as the sequence of its calls to the database and to Redis,  *)
(* and a request arrives with the first of them.                           *)
(***************************************************************************)
EXTENDS Integers, Sequences, FiniteSets, TLC

\* ------------------------------------------------------------------ bounds
MaxId == 1         \* ids the sequence behind products.id hands out
MaxTicks == 2      \* steps of the clock

\* ------------------------------------------------------- program constants
TTL == 120         \* redis_client.setex('products', 120, ...)

\* the clock advances by half a TTL
TickStep == TTL \div 2
MaxTime == MaxTicks * TickStep

\* two request threads
Procs == {"t1", "t2"}
Ids == 1..MaxId
\* (name, price) pairs a request body carries
Inputs == {<<"A", 10>>, <<"B", 20>>}
NoData == <<"", 0>>

VARIABLES
    store,         \* committed rows of table products: a set of <<id, name, price>>
    nextId,        \* next value of the id sequence
    cache,         \* Redis key 'products': <<>> or <<[val, wt, exp, served, survived]>>;
                   \* val the text, wt when it was set, exp when it expires, and as
                   \* history: served, a stale hit since the last failed delete, and
                   \* survived, a delete that failed to remove it
    now,           \* the clock, in seconds
    pc,            \* per request thread: the statement it is about to run
    op,            \* per request thread: the handler it runs
    pid,           \* per thread: product_id (URL argument, or RETURNING id)
    data,          \* per thread: (name, price) of the request body
    product_list,  \* per thread: the list built at line 68
    res,           \* per thread: the response being returned
    ev,            \* history: the store/cache events of the call, in order
    quiet,         \* history: whether the clients stopped mutating, and the cache then
    conn,          \* per thread: conn is open, i.e. opened and not yet conn.close()d
    hist           \* history: the committed states of the table so far, once a
                   \* specification starts it non-empty; {} when not recorded

vars == <<store, nextId, cache, now, pc, op, pid, data, product_list, res, ev, quiet,
          conn, hist>>

\* ----------------------------------------------------------------- store
RowIds(s) == {r[1] : r \in s}
RowOf(s, i) == CHOOSE r \in s : r[1] = i

RECURSIVE SelectAllDesc(_)
\* mutant: ORDER BY id DESC
SelectAllDesc(s) ==
    IF s = {} THEN <<>>
    ELSE LET m == CHOOSE r \in s : \A q \in s : r[1] >= q[1]
         IN <<m>> \o SelectAllDesc(s \ {m})

RECURSIVE SelectAll(_)
\* SELECT id, name, price FROM products ORDER BY id; fetchall()
SelectAll(s) ==
    IF s = {} THEN <<>>
    ELSE LET m == CHOOSE r \in s : \A q \in s : r[1] <= q[1]
         IN <<m>> \o SelectAll(s \ {m})

\* {"id": p[0], "name": p[1], "price": float(p[2])}
ToDict(p) == [id |-> p[1], name |-> p[2], price |-> p[3]]

\* [ ... for p in products]
ProductList(products) == [i \in 1..Len(products) |-> ToDict(products[i])]

\* what a SELECT at this instant turns into
CurList == ProductList(SelectAll(store))

\* ------------------------------------------------------------------ JSON
LBracket == <<"[">>
RBracket == <<"]">>

\* json.dumps(product_list): the text as a sequence of tokens
Dumps(l) ==
    <<LBracket>> \o [i \in 1..Len(l) |-> <<"{", l[i].id, l[i].name, l[i].price>>]
                 \o <<RBracket>>

\* json.loads(cached_products)
Loads(t) ==
    [i \in 1..(Len(t) - 2) |->
        [id |-> t[i + 1][2], name |-> t[i + 1][3], price |-> t[i + 1][4]]]

\* ----------------------------------------------------------------- Redis
\* mutant: the key is set with a longer time to live
ExpiryLong(t) == t + TTL + TickStep

\* the instant a key set at time t with setex(..., 120, ...) expires
Expiry(t) == t + TTL

\* the key holds a value Redis has not expired
Live == cache # <<>> /\ now < cache[1].exp

\* redis_client.get('products'): <<>> is None, <<text>> the stored string
RedisGet == IF Live THEN <<cache[1].val>> ELSE <<>>

\* mutant: set instead of setex, the key never expires
RedisSet(text) ==
    <<[val |-> text, wt |-> now, exp |-> now + TTL * (MaxTicks + 1),
       served |-> FALSE, survived |-> FALSE]>>

\* redis_client.setex('products', 120, text)
RedisSetex(text) ==
    <<[val |-> text, wt |-> now, exp |-> Expiry(now),
       served |-> FALSE, survived |-> FALSE]>>

\* mutant: the test is made on the decoded list, so an empty list is a miss
TruthyList(r) == r # <<>> /\ Len(r[1]) > 2

\* if cached_products:  (None and the empty string are false)
Truthy(r) == r # <<>> /\ Len(r[1]) > 0

\* ------------------------------------------------------------- responses
NoRes == [status |-> 0, source |-> "", data |-> <<>>, err |-> ""]
Ok(src, l) == [status |-> 200, source |-> src, data |-> l, err |-> ""]
Err500(cause) == [status |-> 500, source |-> "", data |-> <<>>, err |-> cause]
Err404 == [status |-> 404, source |-> "", data |-> <<>>, err |-> "notfound"]

InvalPcs == {"add_inval", "upd_inval", "del_inval"}
\* a mutation has committed and not yet issued its invalidation
PendingInval == \E q \in Procs : pc[q] \in InvalPcs

\* the application has started: the table is empty, the key absent
Started ==
    /\ store = {}
    /\ nextId = 1
    /\ cache = <<>>
    /\ now = 0
    /\ pc = [p \in Procs |-> "idle"]
    /\ op = [p \in Procs |-> "none"]
    /\ pid = [p \in Procs |-> 0]
    /\ data = [p \in Procs |-> NoData]
    /\ product_list = [p \in Procs |-> <<>>]
    /\ res = [p \in Procs |-> NoRes]
    /\ ev = [p \in Procs |-> <<>>]
    /\ quiet = [on |-> FALSE, w |-> 0, stale |-> FALSE]
    /\ conn = [p \in Procs |-> FALSE]

Init == Started /\ hist = {}

\* conn = get_db_connection() has returned / conn.close() has run
Opened(p) == conn' = [conn EXCEPT ![p] = TRUE]
Closed(p) == conn' = [conn EXCEPT ![p] = FALSE]

\* conn.commit() took the table to s
Committed(s) == hist' = IF hist = {} THEN hist ELSE hist \cup {s}

\* a request arrives at an idle thread
Arrive(p, o) ==
    /\ pc[p] = "idle"
    /\ op' = [op EXCEPT ![p] = o]

\* ... and it mutates, which clients do until they stop
ArriveMut(p, o) ==
    /\ ~quiet.on
    /\ Arrive(p, o)

\* the handler goes on to statement l with locals i, d, l
Goto(p, l, i, d, pl) ==
    /\ pc' = [pc EXCEPT ![p] = l]
    /\ pid' = [pid EXCEPT ![p] = i]
    /\ data' = [data EXCEPT ![p] = d]
    /\ product_list' = [product_list EXCEPT ![p] = pl]
    /\ UNCHANGED res

\* the handler ends with response r; its locals go out of scope
Respond(p, r) ==
    /\ pc' = [pc EXCEPT ![p] = "ret"]
    /\ res' = [res EXCEPT ![p] = r]
    /\ pid' = [pid EXCEPT ![p] = 0]
    /\ data' = [data EXCEPT ![p] = NoData]
    /\ product_list' = [product_list EXCEPT ![p] = <<>>]

\* except Exception as e: return jsonify({"error": str(e)}), 500, after
\* get_db_connection() raised (no connection) or a statement on the connection
\* did (it stays open: the except clause closes nothing)
StoreError(p) ==
    /\ Respond(p, Err500("store"))
    /\ \E c \in BOOLEAN : conn' = [conn EXCEPT ![p] = c]

\* the response leaves the handler; the thread is free again, the frame and
\* its reference conn are gone
Return(p) ==
    /\ pc[p] = "ret"
    /\ pc' = [pc EXCEPT ![p] = "idle"]
    /\ op' = [op EXCEPT ![p] = "none"]
    /\ res' = [res EXCEPT ![p] = NoRes]
    /\ ev' = [ev EXCEPT ![p] = <<>>]
    /\ Closed(p)
    /\ UNCHANGED <<store, nextId, cache, now, pid, data, product_list, quiet, hist>>

\* ---------------------------------------------------------- get_products
\* a hit on a list the store no longer holds, with no invalidation on its way
StaleHit(l) == l # CurList /\ ~PendingInval

\* mutant: a hit renews the key's time to live
CacheGetRefresh(p) ==
    /\ Arrive(p, "list")
    /\ ev' = [ev EXCEPT ![p] = <<"get">>]
    /\ \/ /\ Respond(p, Err500("cache"))
          /\ UNCHANGED cache
       \/ LET r == RedisGet IN
          IF Truthy(r)
          THEN /\ Respond(p, Ok("cache", Loads(r[1])))
               /\ cache' = <<[cache[1] EXCEPT !.exp = Expiry(now),
                                              !.served = @ \/ StaleHit(Loads(r[1]))]>>
          ELSE /\ Goto(p, "select", 0, NoData, <<>>)
               /\ UNCHANGED cache
    /\ UNCHANGED <<store, nextId, now, quiet, conn, hist>>

\* mutant: the connection is opened before the cache is looked at
CacheGetConnected(p) ==
    /\ Arrive(p, "list")
    /\ ev' = [ev EXCEPT ![p] = <<"get">>]
    /\ Opened(p)
    /\ \/ /\ Respond(p, Err500("cache"))
          /\ UNCHANGED cache
       \/ LET r == RedisGet IN
          IF Truthy(r)
          THEN /\ Respond(p, Ok("cache", Loads(r[1])))
               /\ cache' = IF StaleHit(Loads(r[1]))
                           THEN <<[cache[1] EXCEPT !.served = TRUE]>> ELSE cache
          ELSE /\ Goto(p, "select", 0, NoData, <<>>)
               /\ UNCHANGED cache
    /\ UNCHANGED <<store, nextId, now, quiet, hist>>

\* cached_products = redis_client.get('products'); if cached_products: return ...
\* The call is outside the try block: a Redis error leaves the handler uncaught.
CacheGet(p) ==
    /\ Arrive(p, "list")
    /\ ev' = [ev EXCEPT ![p] = <<"get">>]
    /\ \/ /\ Respond(p, Err500("cache"))
          /\ UNCHANGED cache
       \/ LET r == RedisGet IN
          IF Truthy(r)
          THEN /\ Respond(p, Ok("cache", Loads(r[1])))
               /\ cache' = IF StaleHit(Loads(r[1]))
                           THEN <<[cache[1] EXCEPT !.served = TRUE]>> ELSE cache
          ELSE /\ Goto(p, "select", 0, NoData, <<>>)
               /\ UNCHANGED cache
    /\ UNCHANGED <<store, nextId, now, quiet, conn, hist>>

\* rows other transactions have inserted and not yet committed
Uncommitted(p) ==
    {<<pid[q], data[q][1], data[q][2]>> : q \in {r \in Procs \ {p} : pc[r] = "add_commit"}}

\* mutant: the SELECT also sees rows of transactions that have not committed
SelectDirty(p) ==
    /\ pc[p] = "select"
    /\ ev' = [ev EXCEPT ![p] = Append(@, "select")]
    /\ \/ StoreError(p)
       \/ /\ Goto(p, "setex", 0, NoData, ProductList(SelectAll(store \cup Uncommitted(p))))
          /\ Closed(p)
    /\ UNCHANGED <<store, nextId, cache, now, op, quiet, hist>>

\* conn = get_db_connection() ... product_list = [...]
Select(p) ==
    /\ pc[p] = "select"
    /\ ev' = [ev EXCEPT ![p] = Append(@, "select")]
    /\ \/ StoreError(p)
       \/ /\ Goto(p, "setex", 0, NoData, ProductList(SelectAll(store)))
          /\ Closed(p)
    /\ UNCHANGED <<store, nextId, cache, now, op, quiet, hist>>

\* redis_client.setex('products', 120, json.dumps(product_list)); return ...
\* Inside the try block: a Redis error becomes the 500 of line 79.
SetEx(p) ==
    /\ pc[p] = "setex"
    /\ ev' = [ev EXCEPT ![p] = Append(@, "setex")]
    /\ \/ /\ Respond(p, Err500("cache"))
          /\ UNCHANGED cache
       \/ /\ cache' = RedisSetex(Dumps(product_list[p]))
          /\ Respond(p, Ok("database", product_list[p]))
    /\ UNCHANGED <<store, nextId, now, op, quiet, conn, hist>>

\* mutant: the delete names another key, 'products' stays
InvalidateOtherKey(p) ==
    /\ ev' = [ev EXCEPT ![p] = Append(@, "invalidate")]
    /\ \/ /\ Respond(p, Err500("cache"))
          /\ cache' = IF cache = <<>> THEN cache
                      ELSE <<[cache[1] EXCEPT !.served = FALSE, !.survived = TRUE]>>
       \/ /\ UNCHANGED cache
          /\ Respond(p, Ok("", <<>>))

\* mutant: deleting a key that is not there is taken for an error
InvalidateStrict(p) ==
    /\ ev' = [ev EXCEPT ![p] = Append(@, "invalidate")]
    /\ \/ /\ Respond(p, Err500("cache"))
          /\ cache' = IF cache = <<>> THEN cache
                      ELSE <<[cache[1] EXCEPT !.served = FALSE, !.survived = TRUE]>>
       \/ /\ cache = <<>>
          /\ Respond(p, Err500("nokey"))
          /\ UNCHANGED cache
       \/ /\ cache # <<>>
          /\ cache' = <<>>
          /\ Respond(p, Ok("", <<>>))

\* redis_client.delete('products') and the return that follows it, inside a
\* try block whose except turns a Redis error into a 500
Invalidate(p) ==
    /\ ev' = [ev EXCEPT ![p] = Append(@, "invalidate")]
    /\ \/ /\ Respond(p, Err500("cache"))
          /\ cache' = IF cache = <<>> THEN cache
                      ELSE <<[cache[1] EXCEPT !.served = FALSE, !.survived = TRUE]>>
       \/ /\ cache' = <<>>
          /\ Respond(p, Ok("", <<>>))

\* a row lock another transaction holds on row i until it commits
Locked(p, i) ==
    \E q \in Procs \ {p} : pc[q] \in {"upd_commit", "del_commit"} /\ pid[q] = i

\* the transaction fails at commit and changes nothing
Rollback(p) ==
    /\ Respond(p, Err500("store"))
    /\ ev' = [ev EXCEPT ![p] = Append(@, "rollback")]
    /\ UNCHANGED <<store, conn, hist>>

\* ----------------------------------------------------------- add_product
\* conn = get_db_connection(); INSERT ... RETURNING id; product_id = fetchone()[0]
\* The sequence hands out the ids up to n.
AddInsertUpTo(p, d, n) ==
    /\ ArriveMut(p, "add")
    /\ ev' = [ev EXCEPT ![p] = <<"insert">>]
    /\ \/ /\ StoreError(p)
          /\ UNCHANGED nextId
       \/ /\ nextId <= n
          /\ nextId' = nextId + 1
          /\ Goto(p, "add_commit", nextId, d, <<>>)
          /\ Opened(p)
    /\ UNCHANGED <<store, cache, now, quiet, hist>>

\* add_product with the ids of the concurrent specification
AddInsert(p, d) == AddInsertUpTo(p, d, MaxId)

\* mutant: the cache is invalidated without conn.commit() having run
AddCommitSkipped(p) ==
    /\ pc[p] = "add_commit"
    /\ \/ Rollback(p)
       \/ /\ Goto(p, "add_inval", pid[p], data[p], <<>>)
          /\ Closed(p)
          /\ UNCHANGED <<store, ev, hist>>
    /\ UNCHANGED <<nextId, cache, now, op, quiet>>

\* conn.commit(); cur.close(); conn.close()
AddCommit(p) ==
    /\ pc[p] = "add_commit"
    /\ \/ Rollback(p)
       \/ /\ store' = store \cup {<<pid[p], data[p][1], data[p][2]>>}
          /\ ev' = [ev EXCEPT ![p] = Append(@, "commit")]
          /\ Goto(p, "add_inval", pid[p], data[p], <<>>)
          /\ Committed(store')
          /\ Closed(p)
    /\ UNCHANGED <<nextId, cache, now, op, quiet>>

\* mutant: write-through, the new list is put in the key instead of deleting it
AddInvalidateWriteThrough(p) ==
    /\ pc[p] = "add_inval"
    /\ ev' = [ev EXCEPT ![p] = Append(@, "invalidate")]
    /\ \/ /\ Respond(p, Err500("cache"))
          /\ cache' = IF cache = <<>> THEN cache
                      ELSE <<[cache[1] EXCEPT !.served = FALSE, !.survived = TRUE]>>
       \/ /\ cache' = RedisSetex(Dumps(CurList))
          /\ Respond(p, Ok("", <<>>))
    /\ UNCHANGED <<store, nextId, now, op, quiet, conn, hist>>

\* redis_client.delete('products'); return "Product added"
AddInvalidate(p) ==
    /\ pc[p] = "add_inval"
    /\ Invalidate(p)
    /\ UNCHANGED <<store, nextId, now, op, quiet, conn, hist>>

\* -------------------------------------------------------- update_product
\* mutant: the cache is invalidated before rowcount is looked at
UpdExecuteInvalidating(p, i, d) ==
    /\ ArriveMut(p, "update")
    /\ ~Locked(p, i)
    /\ ev' = [ev EXCEPT ![p] = <<"update">>]
    /\ \/ /\ StoreError(p)
          /\ UNCHANGED cache
       \/ /\ IF i \in RowIds(store)
             THEN /\ Goto(p, "upd_commit", i, d, <<>>)
                  /\ UNCHANGED cache
             ELSE /\ Respond(p, Err404)
                  /\ cache' = <<>>
          /\ Opened(p)
    /\ UNCHANGED <<store, nextId, now, quiet, hist>>

\* conn = get_db_connection(); UPDATE ... WHERE id = %s; if cur.rowcount == 0: return 404
UpdExecute(p, i, d) ==
    /\ ArriveMut(p, "update")
    /\ ~Locked(p, i)
    /\ ev' = [ev EXCEPT ![p] = <<"update">>]
    /\ \/ StoreError(p)
       \/ /\ IF i \in RowIds(store)
             THEN Goto(p, "upd_commit", i, d, <<>>)
             ELSE Respond(p, Err404)
          /\ Opened(p)
    /\ UNCHANGED <<store, nextId, cache, now, quiet, hist>>

\* mutant: the key is deleted in a finally clause, also when commit raised
UpdCommitInvalidating(p) ==
    /\ pc[p] = "upd_commit"
    /\ \/ /\ Rollback(p)
          /\ cache' = <<>>
       \/ /\ store' = (store \ {RowOf(store, pid[p])})
                          \cup {<<pid[p], data[p][1], data[p][2]>>}
          /\ ev' = [ev EXCEPT ![p] = Append(@, "commit")]
          /\ Goto(p, "upd_inval", pid[p], data[p], <<>>)
          /\ Committed(store')
          /\ Closed(p)
          /\ UNCHANGED cache
    /\ UNCHANGED <<nextId, now, op, quiet>>

\* conn.commit(); cur.close(); conn.close()
UpdCommit(p) ==
    /\ pc[p] = "upd_commit"
    /\ \/ Rollback(p)
       \/ /\ store' = (store \ {RowOf(store, pid[p])})
                          \cup {<<pid[p], data[p][1], data[p][2]>>}
          /\ ev' = [ev EXCEPT ![p] = Append(@, "commit")]
          /\ Goto(p, "upd_inval", pid[p], data[p], <<>>)
          /\ Committed(store')
          /\ Closed(p)
    /\ UNCHANGED <<nextId, cache, now, op, quiet>>

\* redis_client.delete('products'); return "Product updated"
UpdInvalidate(p) ==
    /\ pc[p] = "upd_inval"
    /\ Invalidate(p)
    /\ UNCHANGED <<store, nextId, now, op, quiet, conn, hist>>

\* -------------------------------------------------------- delete_product
\* conn = get_db_connection(); DELETE ... WHERE id = %s; if cur.rowcount == 0: return 404
DelExecute(p, i) ==
    /\ ArriveMut(p, "delete")
    /\ ~Locked(p, i)
    /\ ev' = [ev EXCEPT ![p] = <<"delete">>]
    /\ \/ StoreError(p)
       \/ /\ IF i \in RowIds(store)
             THEN Goto(p, "del_commit", i, NoData, <<>>)
             ELSE Respond(p, Err404)
          /\ Opened(p)
    /\ UNCHANGED <<store, nextId, cache, now, quiet, hist>>

\* conn.commit(); cur.close(); conn.close()
DelCommit(p) ==
    /\ pc[p] = "del_commit"
    /\ \/ Rollback(p)
       \/ /\ store' = store \ {RowOf(store, pid[p])}
          /\ ev' = [ev EXCEPT ![p] = Append(@, "commit")]
          /\ Goto(p, "del_inval", pid[p], data[p], <<>>)
          /\ Committed(store')
          /\ Closed(p)
    /\ UNCHANGED <<nextId, cache, now, op, quiet>>

\* redis_client.delete('products'); return "Product deleted"
DelInvalidate(p) ==
    /\ pc[p] = "del_inval"
    /\ Invalidate(p)
    /\ UNCHANGED <<store, nextId, now, op, quiet, conn, hist>>

\* ---------------------------------------------------------- health_check
Healthy == [status |-> 200, source |-> "healthy", data |-> <<>>, err |-> ""]
Unhealthy(cause) == [status |-> 500, source |-> "unhealthy", data |-> <<>>, err |-> cause]

\* mutant: redis_client.ping() is not looked at
HealthCheckNoPing(p) ==
    /\ Arrive(p, "health")
    /\ \/ /\ ev' = [ev EXCEPT ![p] = <<"probe_failed">>]
          /\ Respond(p, Unhealthy("store"))
          /\ \E c \in BOOLEAN : conn' = [conn EXCEPT ![p] = c]
       \/ /\ \E e \in {"ping_failed", "ping"} : ev' = [ev EXCEPT ![p] = <<"probe", e>>]
          /\ Respond(p, Healthy)
          /\ Closed(p)
    /\ UNCHANGED <<store, nextId, cache, now, quiet, hist>>

\* try: conn = get_db_connection(); cur.execute('SELECT 1'); cur.close();
\* conn.close(); redis_client.ping(); return healthy, 200
\* except Exception as e: return unhealthy with str(e), 500
\* The handler touches neither the table nor the key, so it is one step.
HealthCheck(p) ==
    /\ Arrive(p, "health")
    /\ \/ /\ ev' = [ev EXCEPT ![p] = <<"probe_failed">>]
          /\ Respond(p, Unhealthy("store"))
          /\ \E c \in BOOLEAN : conn' = [conn EXCEPT ![p] = c]
       \/ /\ ev' = [ev EXCEPT ![p] = <<"probe", "ping_failed">>]
          /\ Respond(p, Unhealthy("cache"))
          /\ Closed(p)
       \/ /\ ev' = [ev EXCEPT ![p] = <<"probe", "ping">>]
          /\ Respond(p, Healthy)
          /\ Closed(p)
    /\ UNCHANGED <<store, nextId, cache, now, quiet, hist>>

\* ---------------------------------------------------------- environment
\* the clients stop mutating once every call in flight has returned
StopMutations ==
    /\ ~quiet.on
    /\ \A p \in Procs : pc[p] = "idle"
    /\ quiet' = [on |-> TRUE,
                 w |-> IF cache = <<>> THEN 0 ELSE cache[1].wt,
                 stale |-> Live /\ Loads(cache[1].val) # CurList]
    /\ UNCHANGED <<store, nextId, cache, now, pc, op, pid, data, product_list, res, ev,
                   conn, hist>>

\* the clock
Tick ==
    /\ now + TickStep <= MaxTime
    /\ now' = now + TickStep
    /\ UNCHANGED <<store, nextId, cache, pc, op, pid, data, product_list, res, ev, quiet, conn, hist>>

Next ==
    \/ Tick
    \/ StopMutations
    \/ \E p \in Procs :
          \/ CacheGet(p)
          \/ Select(p)
          \/ SetEx(p)
          \/ Return(p)
          \/ \E d \in Inputs : AddInsert(p, d)
          \/ AddCommit(p)
          \/ AddInvalidate(p)
          \/ \E i \in Ids, d \in Inputs : UpdExecute(p, i, d)
          \/ UpdCommit(p)
          \/ UpdInvalidate(p)
          \/ \E i \in Ids : DelExecute(p, i)
          \/ DelCommit(p)
          \/ DelInvalidate(p)
          \/ HealthCheck(p)

Spec == Init /\ [][Next]_vars

\* ------------------------------------------------ one request at a time
\* ids the sequence hands out when the calls do not overlap
SeqMaxId == MaxId + 2

\* no other thread has a call in flight
Alone(p) == \A q \in Procs \ {p} : pc[q] = "idle"

\* each call runs to its return before the next one starts
NextSeq ==
    \/ Tick
    \/ \E p \in Procs :
          \/ Alone(p) /\ CacheGet(p)
          \/ Alone(p) /\ Select(p)
          \/ Alone(p) /\ SetEx(p)
          \/ Alone(p) /\ Return(p)
          \/ Alone(p) /\ \E d \in Inputs : AddInsertUpTo(p, d, SeqMaxId)
          \/ Alone(p) /\ AddCommit(p)
          \/ Alone(p) /\ AddInvalidate(p)
          \/ Alone(p) /\ \E i \in 1..SeqMaxId, d \in Inputs : UpdExecute(p, i, d)
          \/ Alone(p) /\ UpdCommit(p)
          \/ Alone(p) /\ UpdInvalidate(p)
          \/ Alone(p) /\ \E i \in 1..SeqMaxId : DelExecute(p, i)
          \/ Alone(p) /\ DelCommit(p)
          \/ Alone(p) /\ DelInvalidate(p)
          \/ Alone(p) /\ HealthCheck(p)

SpecSeq == Init /\ [][NextSeq]_vars

\* ... and Redis answers every command of the call
Answered(p) == Alone(p) /\ res'[p].err # "cache"

NextSeqOk ==
    \/ Tick
    \/ \E p \in Procs :
          \/ CacheGet(p) /\ Answered(p)
          \/ Select(p) /\ Answered(p)
          \/ SetEx(p) /\ Answered(p)
          \/ Return(p) /\ Answered(p)
          \/ \E d \in Inputs : AddInsertUpTo(p, d, SeqMaxId) /\ Answered(p)
          \/ AddCommit(p) /\ Answered(p)
          \/ AddInvalidate(p) /\ Answered(p)
          \/ \E i \in 1..SeqMaxId, d \in Inputs : UpdExecute(p, i, d) /\ Answered(p)
          \/ UpdCommit(p) /\ Answered(p)
          \/ UpdInvalidate(p) /\ Answered(p)
          \/ \E i \in 1..SeqMaxId : DelExecute(p, i) /\ Answered(p)
          \/ DelCommit(p) /\ Answered(p)
          \/ DelInvalidate(p) /\ Answered(p)
          \/ HealthCheck(p) /\ Answered(p)

SpecSeqOk == Init /\ [][NextSeqOk]_vars

\* ------------------------------------- with the table's history recorded
InitHist == Started /\ hist = {store}

\* ids the sequence hands out while the history is recorded
HistMaxId == MaxId + 1

\* neither the database nor Redis fails in this step of thread p
NoFailure(p) == res'[p].status # 500

\* the requests overlap freely; the clock stands still
NextHist ==
    \E p \in Procs :
        \/ CacheGet(p) /\ NoFailure(p)
        \/ Select(p) /\ NoFailure(p)
        \/ SetEx(p) /\ NoFailure(p)
        \/ Return(p)
        \/ \E d \in Inputs : AddInsertUpTo(p, d, HistMaxId) /\ NoFailure(p)
        \/ AddCommit(p) /\ NoFailure(p)
        \/ AddInvalidate(p) /\ NoFailure(p)
        \/ \E i \in 1..HistMaxId, d \in Inputs : UpdExecute(p, i, d) /\ NoFailure(p)
        \/ UpdCommit(p) /\ NoFailure(p)
        \/ UpdInvalidate(p) /\ NoFailure(p)
        \/ \E i \in 1..HistMaxId : DelExecute(p, i) /\ NoFailure(p)
        \/ DelCommit(p) /\ NoFailure(p)
        \/ DelInvalidate(p) /\ NoFailure(p)

SpecHist == InitHist /\ [][NextHist]_vars

\* ------------------------------------------------------------ properties
Has(seq, x) == \E i \in 1..Len(seq) : seq[i] = x
IsMut(p) == op[p] \in {"add", "update", "delete"}
\* thread p holds the response of a call of handler o
Returns(p, o) == pc[p] = "ret" /\ op[p] = o
\* this step is thread p's redis get, and Redis answered
GetStep(p) == pc[p] = "idle" /\ op'[p] = "list" /\ res'[p].err # "cache"
\* this step is a cache hit of thread p
HitStep(p) == GetStep(p) /\ pc'[p] = "ret"
\* this step is thread p's setex, and Redis answered
SetexStep(p) == pc[p] = "setex" /\ res'[p].status = 200

\* C1: whenever no committed mutation still has its invalidation to issue
\* (every commit has issued it, so the only list true since the last such
\* commit is the current one), a snapshot that is present and that no failed
\* delete left behind equals the store's current list: the cache never holds
\* a list read before a commit whose invalidation was issued.
C1_SnapshotNotOlderThanInvalidation ==
    (~PendingInval /\ Live /\ ~cache[1].survived) => Loads(cache[1].val) = CurList

\* C2: when create, update or delete returns success the key 'products' is
\* absent, so the next listProducts is served from the store.
C2_KeyAbsentAfterMutation ==
    \A p \in Procs :
        (pc[p] = "ret" /\ IsMut(p) /\ res[p].status = 200) => RedisGet = <<>>

\* C3: once the clients have stopped mutating and every call has returned,
\* a listProducts answered TTL or more after the last cache write of that
\* moment returns exactly the store's list; and a cache hit leaves the
\* snapshot's text, write time and expiry as they were.
C3_NoPermanentStaleness ==
    [][\A p \in Procs :
          /\ (quiet.on /\ now >= quiet.w + TTL /\ (HitStep(p) \/ SetexStep(p)))
                => res'[p].data = CurList
          /\ HitStep(p) =>
                /\ cache' # <<>>
                /\ cache'[1].val = cache[1].val
                /\ cache'[1].wt = cache[1].wt
                /\ cache'[1].exp = cache[1].exp]_vars

\* C3 witness: the clients stopped while the cache held a stale live list, and
\* a later listProducts found it expired and was served from the store.
C3_Witness ==
    /\ quiet.on /\ quiet.stale
    /\ \E p \in Procs : Returns(p, "list") /\ res[p].source = "database"
                            /\ res[p].data = CurList /\ CurList # <<>>

\* C4: listProducts never fails because of the cache: its only failure is a
\* failure of the store.
C4_ListSurvivesCacheFailure ==
    \A p \in Procs : Returns(p, "list") => res[p].err # "cache"

\* C5: a mutation reports success exactly when its transaction committed,
\* whatever the cache delete did.
C5_OutcomeAgreesWithStore ==
    \A p \in Procs :
        (pc[p] = "ret" /\ IsMut(p)) => (res[p].status = 200 <=> Has(ev[p], "commit"))

\* C6: in every mutation the commit comes first, then the invalidation, then
\* the success response: an invalidation is issued only right after the
\* call's own commit, and success is returned only after the invalidation.
C6_CommitThenInvalidateThenReturn ==
    \A p \in Procs :
        /\ \A i \in 1..Len(ev[p]) :
              ev[p][i] = "invalidate" => (i > 1 /\ ev[p][i - 1] = "commit")
        /\ pc[p] \in InvalPcs => ev[p][Len(ev[p])] = "commit"
        /\ (pc[p] = "ret" /\ IsMut(p) /\ res[p].status = 200)
              => ev[p][Len(ev[p])] = "invalidate"

\* C6 witness: a mutation returns success, having committed and invalidated.
C6_Witness ==
    \E p \in Procs :
        /\ Returns(p, "add") /\ res[p].status = 200
        /\ ev[p] = <<"insert", "commit", "invalidate">>
        /\ pid[p] = 0 /\ store # {}

\* C7: an update or delete goes on to commit only for an id the store holds;
\* the step that answers NotFound changes neither the store nor the cache
\* and issues no cache delete, so a warm cache stays warm.
C7_NotFoundChangesNothing ==
    [][\A p \in Procs :
          /\ pc'[p] \in {"upd_commit", "del_commit"} => pid'[p] \in RowIds(store')
          /\ (res[p].status # 404 /\ res'[p].status = 404) =>
                /\ op'[p] \in {"update", "delete"}
                /\ store' = store
                /\ cache' = cache
                /\ RedisGet' = RedisGet
                /\ ~Has(ev'[p], "invalidate")
                /\ ~Has(ev'[p], "commit")]_vars

\* C7 witness: NotFound is returned while the cache is warm.
C7_Witness ==
    \E p \in Procs : Returns(p, "update") /\ res[p].status = 404 /\ Truthy(RedisGet)

\* C8: a listProducts that misses and whose setex Redis accepts returns the
\* store's list tagged database and leaves a snapshot that a get at that
\* instant finds and that decodes to the returned list; a listProducts whose
\* get finds a live snapshot, the empty list included, returns its decoded
\* content tagged cache.
C8_PopulateThenHit ==
    [][\A p \in Procs :
          /\ SetexStep(p) =>
                /\ res'[p] = Ok("database", product_list[p])
                /\ Truthy(RedisGet')
                /\ Loads(RedisGet'[1]) = res'[p].data
          /\ (GetStep(p) /\ Live) => res'[p] = Ok("cache", Loads(cache[1].val))
          /\ (GetStep(p) /\ ~Live) => pc'[p] = "select"]_vars

\* C8 witness: the empty list was cached and is served from the cache.
C8_Witness ==
    \E p \in Procs : Returns(p, "list") /\ res[p].source = "cache" /\ res[p].data = <<>>

\* C9: a snapshot is written with write time now and expiry now + TTL; a get
\* that Redis answers is a hit exactly when a snapshot exists that was
\* written less than TTL ago, and otherwise goes on to read the store.
C9_TtlExpiry ==
    [][\A p \in Procs :
          /\ SetexStep(p) => cache'[1].wt = now /\ cache'[1].exp = now + TTL
          /\ GetStep(p) =>
                /\ (res'[p].source = "cache") <=> (cache # <<>> /\ now < cache[1].wt + TTL)
                /\ (pc'[p] = "select") <=> ~(cache # <<>> /\ now < cache[1].wt + TTL)]_vars

\* C9 witness: a get at or after write time + TTL missed an unexpunged
\* snapshot and the call is on its way to the store.
C9_Witness ==
    \E p \in Procs : pc[p] = "select" /\ cache # <<>> /\ now >= cache[1].wt + TTL

\* C10 as claimed: after a missed invalidation a snapshot is served stale at
\* most once: no stale hit reads a snapshot already served stale since the
\* last failed delete.
C10_AtMostOneStaleRead ==
    [][\A p \in Procs :
          (HitStep(p) /\ StaleHit(res'[p].data)) => ~cache[1].served]_vars

\* C10 as amended: stale reads are bounded in time, not in number: every hit
\* that returns a list the store no longer holds reads a snapshot written
\* less than TTL ago.
C10_StaleReadsWithinTtl ==
    [][\A p \in Procs :
          (HitStep(p) /\ StaleHit(res'[p].data)) => now < cache[1].wt + TTL]_vars

\* C10 witness: a snapshot that was already served stale is served stale again.
C10_Witness ==
    /\ cache # <<>> /\ cache[1].served
    /\ \A p \in Procs : Returns(p, "list") /\ res[p].source = "cache"
                            /\ res[p].data = Loads(cache[1].val)
                            /\ res[p].data # CurList

\* no event occurs twice in seq
NoRepeat(seq) == \A i, j \in 1..Len(seq) : seq[i] = seq[j] => i = j
\* this step ends thread p's call of a product handler with the store's error
StoreErrorStep(p) ==
    pc[p] # "ret" /\ pc'[p] = "ret" /\ res'[p] = Err500("store") /\ op'[p] # "health"

\* C11: when the store fails during listProducts (after a miss), create,
\* update or delete, the call answers with the store's error after a single
\* attempt: no store statement was run twice, nothing was committed, the
\* failing step leaves the table and the key as they were, and the call
\* neither wrote nor deleted the key.
C11_StoreFailureChangesNothing ==
    [][\A p \in Procs :
          StoreErrorStep(p) =>
              /\ res'[p].status = 500
              /\ store' = store
              /\ cache' = cache
              /\ NoRepeat(ev'[p])
              /\ ~Has(ev'[p], "commit")
              /\ ~Has(ev'[p], "setex")
              /\ ~Has(ev'[p], "invalidate")]_vars

\* C11 witness: an update whose commit failed returns the store's error while
\* the table holds a row and the cache is warm.
C11_Witness ==
    \E p \in Procs :
        /\ Returns(p, "update") /\ res[p] = Err500("store")
        /\ ev[p] = <<"update", "rollback">>
        /\ store # {} /\ Truthy(RedisGet)

\* the ids of list l grow from each element to the next
Ascending(l) == \A i \in 1..(Len(l) - 1) : l[i].id < l[i + 1].id

\* C12: every list a listProducts returns, tagged cache or database, after
\* any sequence of creates, updates, deletes and reads, is sorted strictly
\* ascending by id, and so is the list the key holds.
C12_ListSortedById ==
    /\ \A p \in Procs :
          (Returns(p, "list") /\ res[p].status = 200) => Ascending(res[p].data)
    /\ cache # <<>> => Ascending(Loads(cache[1].val))

\* C12 witness: a list of every id is returned from the cache after the row
\* with the lowest id was written with the second name.
C12_Witness ==
    \E p \in Procs :
        /\ Returns(p, "list") /\ res[p].source = "cache"
        /\ Len(res[p].data) = SeqMaxId
        /\ res[p].data[1].name = "B"

\* C13: a listProducts whose get finds a live snapshot answers tagged cache
\* in that very step, having run no store statement and opened no
\* connection, and leaves the table alone; a response tagged database ends a
\* call that ran the SELECT, and carries the list that SELECT of the same
\* call produced from the table.
C13_HitSkipsStoreDatabaseReadsIt ==
    [][\A p \in Procs :
          /\ (GetStep(p) /\ Live) =>
                /\ pc'[p] = "ret" /\ res'[p].source = "cache"
                /\ ev'[p] = <<"get">>
                /\ ~conn'[p]
                /\ store' = store /\ nextId' = nextId
          /\ (pc[p] = "select" /\ pc'[p] = "setex") =>
                /\ ev'[p] = <<"get", "select">>
                /\ product_list'[p] = CurList
          /\ (pc[p] = "setex" /\ res'[p].source = "database") =>
                /\ ev'[p] = <<"get", "select", "setex">>
                /\ res'[p].data = product_list[p]
          /\ res'[p].source = "database" => pc[p] \in {"setex", "ret"}
          /\ res'[p].source = "cache" => pc[p] \in {"idle", "ret"}]_vars

\* C13 witness: one call is answered from the cache with a row, having only
\* run the get, while another is answered from the store.
C13_Witness ==
    \E p, q \in Procs :
        /\ Returns(p, "list") /\ res[p].source = "cache" /\ res[p].data # <<>>
        /\ ev[p] = <<"get">> /\ ~conn[p]
        /\ Returns(q, "list") /\ res[q].source = "database"
        /\ ev[q] = <<"get", "select", "setex">>

\* this step is thread p's redis delete, and Redis answered
DeleteStep(p) == pc[p] \in InvalPcs /\ pc'[p] = "ret" /\ res'[p].err # "cache"

\* C14: invalidation is idempotent: every mutation that committed issues its
\* own delete, also while another one has its delete still to issue; a
\* delete Redis answers leaves the key absent and the mutation returns
\* success, whether the key was there or another mutation's delete had
\* already removed it, in which case the delete changes nothing.
C14_DeleteIsIdempotent ==
    [][\A p \in Procs :
          /\ (pc[p] \in InvalPcs /\ pc'[p] # pc[p]) =>
                pc'[p] = "ret" /\ ev'[p] = Append(ev[p], "invalidate")
          /\ DeleteStep(p) =>
                /\ res'[p] = Ok("", <<>>)
                /\ cache' = <<>>
                /\ cache = <<>> => cache' = cache
                /\ UNCHANGED <<store, nextId>>]_vars

\* C14 witness: two mutations that overlap have both committed and both
\* deleted the key, each returns success, and the key is absent.
C14_Witness ==
    /\ cache = <<>>
    /\ \A p \in Procs :
          /\ pc[p] = "ret" /\ IsMut(p) /\ res[p].status = 200
          /\ Has(ev[p], "commit") /\ ev[p][Len(ev[p])] = "invalidate"

\* this step is thread p's whole health check
HealthStep(p) == pc[p] = "idle" /\ op'[p] = "health"

\* C15: the health check always ends with a status value: healthy (200)
\* exactly when both the store probe and the Redis ping succeeded, otherwise
\* unhealthy (500) carrying the error of the probe that failed; and it
\* leaves the table, the id sequence and the key as they were.
C15_HealthAlwaysAnswers ==
    [][\A p \in Procs :
          HealthStep(p) =>
              /\ pc'[p] = "ret"
              /\ res'[p] \in {Healthy, Unhealthy("store"), Unhealthy("cache")}
              /\ (res'[p] = Healthy) <=> (ev'[p] = <<"probe", "ping">>)
              /\ (res'[p] = Unhealthy("store")) <=> (ev'[p] = <<"probe_failed">>)
              /\ (res'[p] = Unhealthy("cache")) <=> (ev'[p] = <<"probe", "ping_failed">>)
              /\ UNCHANGED <<store, nextId, cache>>]_vars

\* C15 witness: with a row in the table and a warm cache, one health check
\* answers healthy and another unhealthy because the ping failed.
C15_Witness ==
    /\ store # {} /\ Truthy(RedisGet)
    /\ \E p, q \in Procs :
          /\ Returns(p, "health") /\ res[p] = Healthy
          /\ Returns(q, "health") /\ res[q] = Unhealthy("cache")

\* no call is in flight
BetweenCalls == \A p \in Procs : pc[p] = "idle"

\* C16: when each call runs to its return before the next one starts and
\* Redis answers every command, then between calls the key is absent,
\* expired, or holds the table's current list, and a response tagged cache
\* carries exactly the list a SELECT would return.
C16_SequentialCacheIsCurrent ==
    /\ (BetweenCalls /\ Live) => Loads(cache[1].val) = CurList
    /\ \A p \in Procs :
          (Returns(p, "list") /\ res[p].source = "cache") => res[p].data = CurList

\* C16 witness: between calls, after a product was deleted or an insert
\* failed, the key holds the live list of two rows, which is the table's.
C16_Witness ==
    /\ BetweenCalls /\ Live
    /\ Len(Loads(cache[1].val)) = 2
    /\ nextId = SeqMaxId + 1

\* the lists an ordered SELECT of a past committed state of the table gives
PastLists == {ProductList(SelectAll(s)) : s \in hist}

\* C17: under any interleaving, the list the key holds, the list a call is
\* about to cache and every list a listProducts returns is the complete
\* ordered content of the table in one of its past committed states: never
\* a mixture of two states, never a row or a value that was not committed.
C17_ListsAreCommittedStates ==
    /\ cache # <<>> => Loads(cache[1].val) \in PastLists
    /\ \A p \in Procs :
          /\ pc[p] = "setex" => product_list[p] \in PastLists
          /\ (Returns(p, "list") /\ res[p].status = 200) => res[p].data \in PastLists

\* C17 witness: while another call is about to commit, a call returns from
\* the cache a list of two rows that is no longer the table's, the table
\* holding two rows as well.
C17_Witness ==
    \E p, q \in Procs :
        /\ Returns(p, "list") /\ res[p].source = "cache"
        /\ Len(res[p].data) = 2 /\ Len(CurList) = 2
        /\ res[p].data # CurList
        /\ pc[q] \in {"upd_commit", "del_commit"}

\* the key holds after the step the text, write time and expiry it held before
SameSnapshot ==
    \/ cache = <<>> /\ cache' = <<>>
    \/ /\ cache # <<>> /\ cache' # <<>>
       /\ cache'[1].val = cache[1].val
       /\ cache'[1].wt = cache[1].wt
       /\ cache'[1].exp = cache[1].exp
\* this step is a step of a call of thread p to one of the handlers in hs
StepOf(p, hs) == pc'[p] # pc[p] /\ (op[p] \in hs \/ op'[p] \in hs)

\* C18: whenever a step leaves in the key a snapshot that was not there
\* before, it is the setex of a listProducts that missed and then read the
\* table, and the snapshot is the list it read; a step of create, update or
\* delete leaves the snapshot as it was or, being the call's delete, leaves
\* the key absent; no step of listProducts changes the table or its id
\* sequence.
C18_OnlyMissWritesSnapshot ==
    [][/\ (cache' # <<>> /\ ~SameSnapshot) =>
             \E p \in Procs :
                 /\ pc[p] = "setex" /\ op[p] = "list" /\ pc'[p] = "ret"
                 /\ ev[p] = <<"get", "select">>
                 /\ cache'[1].val = Dumps(product_list[p])
       /\ \A p \in Procs :
             /\ StepOf(p, {"add", "update", "delete"}) =>
                   \/ SameSnapshot
                   \/ pc[p] \in InvalPcs /\ cache' = <<>>
             /\ StepOf(p, {"list"}) => UNCHANGED <<store, nextId>>]_vars

\* C18 witness: a TTL or more after the start a listProducts that missed
\* has just written the table's rows to the key, while a mutation has
\* committed and not yet deleted the key.
C18_Witness ==
    \E p, q \in Procs :
        /\ Returns(p, "list") /\ res[p].source = "database" /\ res[p].data # <<>>
        /\ cache # <<>> /\ cache[1].wt = now /\ now >= TTL
        /\ Loads(cache[1].val) = res[p].data
        /\ pc[q] \in InvalPcs

\* C19: every call that opened a store connection has closed it when it
\* returns its response, whatever the outcome: no thread holds a response
\* with its connection still open.
C19_ConnectionClosedOnReturn ==
    \A p \in Procs : pc[p] = "ret" => ~conn[p]
====
